---- MODULE Spec2Model ----
(***************************************************************************)
(* A model of optLatexMarkdownFromHtml.py: the text pipeline               *)
(*   process_tables -> merge_separated_equations -> delimiter translation  *)
(*   and head injection (process_html_content).                            *)
(*                                                                         *)
(* A text is a sequence of one-character strings.  A character outside     *)
(* printable ASCII is written "U+XXXX" (one element for one character).    *)
(* Every regular expression of the source is modelled by an operator that  *)
(* gives, for a start index, the end index of the match the backtracking   *)
(* engine of Python's re finds there (0: no match at that index).          *)
(***************************************************************************)
EXTENDS Integers, Sequences, FiniteSets, TLC

VARIABLES
    input,   \* the argument the functions are called with
    op,      \* the function called last ("none" before any call)
    out,     \* the text it returned (<< >> when it raised)
    fault    \* the exception it raised ("none" when it returned)

vars == << input, op, out, fault >>

(***************************************************************************)
(* Literal texts of the source.                                            *)
(***************************************************************************)
\* table_css, lines 53-74
table_css ==
    <<
    "\n", " ", " ", " ", " ", "<", "s", "t", "y", "l", "e", ">", "\n", " ", " ", " ", " ", ".",
    "m", "a", "r", "k", "d", "o", "w", "n", "-", "t", "a", "b", "l", "e", " ", "{", "\n", " ",
    " ", " ", " ", " ", " ", " ", " ", "b", "o", "r", "d", "e", "r", "-", "c", "o", "l", "l",
    "a", "p", "s", "e", ":", " ", "c", "o", "l", "l", "a", "p", "s", "e", ";", "\n", " ", " ",
    " ", " ", " ", " ", " ", " ", "w", "i", "d", "t", "h", ":", " ", "1", "0", "0", "%", ";",
    "\n", " ", " ", " ", " ", " ", " ", " ", " ", "m", "a", "r", "g", "i", "n", ":", " ", "1",
    ".", "5", "e", "m", " ", "0", ";", "\n", " ", " ", " ", " ", " ", " ", " ", " ", "b", "o",
    "r", "d", "e", "r", ":", " ", "1", "p", "x", " ", "s", "o", "l", "i", "d", " ", "#", "d",
    "d", "d", ";", "\n", " ", " ", " ", " ", "}", "\n", " ", " ", " ", " ", ".", "m", "a", "r",
    "k", "d", "o", "w", "n", "-", "t", "a", "b", "l", "e", " ", "t", "h", ",", " ", ".", "m",
    "a", "r", "k", "d", "o", "w", "n", "-", "t", "a", "b", "l", "e", " ", "t", "d", " ", "{",
    "\n", " ", " ", " ", " ", " ", " ", " ", " ", "p", "a", "d", "d", "i", "n", "g", ":", " ",
    "0", ".", "8", "e", "m", " ", "1", "e", "m", ";", "\n", " ", " ", " ", " ", " ", " ", " ",
    " ", "t", "e", "x", "t", "-", "a", "l", "i", "g", "n", ":", " ", "l", "e", "f", "t", ";",
    "\n", " ", " ", " ", " ", " ", " ", " ", " ", "b", "o", "r", "d", "e", "r", "-", "b", "o",
    "t", "t", "o", "m", ":", " ", "1", "p", "x", " ", "s", "o", "l", "i", "d", " ", "#", "d",
    "d", "d", ";", "\n", " ", " ", " ", " ", "}", "\n", " ", " ", " ", " ", ".", "m", "a", "r",
    "k", "d", "o", "w", "n", "-", "t", "a", "b", "l", "e", " ", "t", "h", " ", "{", "\n", " ",
    " ", " ", " ", " ", " ", " ", " ", "b", "a", "c", "k", "g", "r", "o", "u", "n", "d", "-",
    "c", "o", "l", "o", "r", ":", " ", "#", "f", "5", "f", "5", "f", "5", ";", "\n", " ", " ",
    " ", " ", " ", " ", " ", " ", "f", "o", "n", "t", "-", "w", "e", "i", "g", "h", "t", ":",
    " ", "b", "o", "l", "d", ";", "\n", " ", " ", " ", " ", "}", "\n", " ", " ", " ", " ", ".",
    "m", "a", "r", "k", "d", "o", "w", "n", "-", "t", "a", "b", "l", "e", " ", "t", "r", ":",
    "h", "o", "v", "e", "r", " ", "{", "\n", " ", " ", " ", " ", " ", " ", " ", " ", "b", "a",
    "c", "k", "g", "r", "o", "u", "n", "d", "-", "c", "o", "l", "o", "r", ":", " ", "#", "f",
    "9", "f", "9", "f", "9", ";", "\n", " ", " ", " ", " ", "}", "\n", " ", " ", " ", " ", "<",
    "/", "s", "t", "y", "l", "e", ">", "\n", " ", " ", " ", " " >>
\* mathjax_config, lines 170-189 (the value of the non-raw literal: "\\\\(" in the source is two backslashes and a parenthesis)
mathjax_config ==
    <<
    "\n", " ", " ", " ", " ", "<", "s", "c", "r", "i", "p", "t", ">", "\n", " ", " ", " ", " ",
    " ", " ", " ", " ", "M", "a", "t", "h", "J", "a", "x", ".", "c", "o", "n", "f", "i", "g",
    " ", "=", " ", "{", "\n", " ", " ", " ", " ", " ", " ", " ", " ", " ", " ", " ", " ", "t",
    "e", "x", ":", " ", "{", "\n", " ", " ", " ", " ", " ", " ", " ", " ", " ", " ", " ", " ",
    " ", " ", " ", " ", "i", "n", "l", "i", "n", "e", "M", "a", "t", "h", ":", " ", "[", "[",
    "'", "\\", "\\", "(", "'", ",", " ", "'", "\\", "\\", ")", "'", "]", "]", ",", "\n", " ",
    " ", " ", " ", " ", " ", " ", " ", " ", " ", " ", " ", " ", " ", " ", " ", "d", "i", "s",
    "p", "l", "a", "y", "M", "a", "t", "h", ":", " ", "[", "[", "'", "\\", "\\", "[", "'", ",",
    " ", "'", "\\", "\\", "]", "'", "]", "]", ",", "\n", " ", " ", " ", " ", " ", " ", " ",
    " ", " ", " ", " ", " ", " ", " ", " ", " ", "p", "r", "o", "c", "e", "s", "s", "E", "s",
    "c", "a", "p", "e", "s", ":", " ", "t", "r", "u", "e", ",", "\n", " ", " ", " ", " ", " ",
    " ", " ", " ", " ", " ", " ", " ", " ", " ", " ", " ", "p", "r", "o", "c", "e", "s", "s",
    "E", "n", "v", "i", "r", "o", "n", "m", "e", "n", "t", "s", ":", " ", "t", "r", "u", "e",
    ",", "\n", " ", " ", " ", " ", " ", " ", " ", " ", " ", " ", " ", " ", " ", " ", " ", " ",
    "/", "/", " ", "U+786E", "U+4FDD", "U+4E0B", "U+5212", "U+7EBF", "U+6B63", "U+786E",
    "U+89E3", "U+6790", "U+4E3A", "U+4E0B", "U+6807", "\n", " ", " ", " ", " ", " ", " ", " ",
    " ", " ", " ", " ", " ", " ", " ", " ", " ", "m", "a", "c", "r", "o", "s", ":", " ", "{",
    "\n", " ", " ", " ", " ", " ", " ", " ", " ", " ", " ", " ", " ", " ", " ", " ", " ", " ",
    " ", " ", " ", "/", "/", " ", "U+53EF", "U+4EE5", "U+5728", "U+8FD9", "U+91CC", "U+5B9A",
    "U+4E49", "U+5E38", "U+7528", "U+5B8F", "U+FF0C", "U+4F46", "U+4E3B", "U+8981", "U+786E",
    "U+4FDD", "U+9ED8", "U+8BA4", "U+89E3", "U+6790", "U+6B63", "U+786E", "\n", " ", " ", " ",
    " ", " ", " ", " ", " ", " ", " ", " ", " ", " ", " ", " ", " ", "}", "\n", " ", " ", " ",
    " ", " ", " ", " ", " ", " ", " ", " ", " ", "}", ",", "\n", " ", " ", " ", " ", " ", " ",
    " ", " ", " ", " ", " ", " ", "s", "v", "g", ":", " ", "{", "\n", " ", " ", " ", " ", " ",
    " ", " ", " ", " ", " ", " ", " ", " ", " ", " ", " ", "f", "o", "n", "t", "C", "a", "c",
    "h", "e", ":", " ", "'", "g", "l", "o", "b", "a", "l", "'", "\n", " ", " ", " ", " ", " ",
    " ", " ", " ", " ", " ", " ", " ", "}", "\n", " ", " ", " ", " ", " ", " ", " ", " ", "}",
    ";", "\n", " ", " ", " ", " ", "<", "/", "s", "c", "r", "i", "p", "t", ">", "\n", " ", " ",
    " ", " ", "<", "s", "c", "r", "i", "p", "t", " ", "s", "r", "c", "=", "\"", "h", "t", "t",
    "p", "s", ":", "/", "/", "c", "d", "n", ".", "j", "s", "d", "e", "l", "i", "v", "r", ".",
    "n", "e", "t", "/", "n", "p", "m", "/", "m", "a", "t", "h", "j", "a", "x", "@", "3", "/",
    "e", "s", "5", "/", "t", "e", "x", "-", "m", "m", "l", "-", "c", "h", "t", "m", "l", ".",
    "j", "s", "\"", ">", "<", "/", "s", "c", "r", "i", "p", "t", ">", "\n", " ", " ", " ", " " >>
\* block_placeholder, lines 118 and 155
block_placeholder ==
    <<
    "_", "_", "_", "B", "L", "O", "C", "K", "_", "E", "Q", "U", "A", "T", "I", "O", "N", "_",
    "_", "_" >>
\* inline_placeholder, line 124
inline_placeholder ==
    <<
    "_", "_", "_", "I", "N", "L", "I", "N", "E", "_", "E", "Q", "U", "A", "T", "I", "O", "N",
    "_", "_", "_" >>
\* line 30
TABLE_OPEN ==
    <<
    "<", "t", "a", "b", "l", "e", " ", "c", "l", "a", "s", "s", "=", "\"", "m", "a", "r", "k",
    "d", "o", "w", "n", "-", "t", "a", "b", "l", "e", "\"", ">" >>
\* line 31
THEAD_OPEN == << "<", "t", "h", "e", "a", "d", ">" >>
\* line 35
THEAD_CLOSE == << "<", "/", "t", "h", "e", "a", "d", ">" >>
\* line 36
TBODY_OPEN == << "<", "t", "b", "o", "d", "y", ">" >>
\* line 44
TBODY_CLOSE == << "<", "/", "t", "b", "o", "d", "y", ">" >>
\* line 45
TABLE_CLOSE == << "<", "/", "t", "a", "b", "l", "e", ">" >>
\* lines 34 and 42
TR_OPEN == << " ", " ", "<", "t", "r", ">" >>
\* lines 34 and 42
TR_CLOSE == << "<", "/", "t", "r", ">" >>
\* lines 33 and 41
CELL_BOUNDARY == << "<", "/", "t", "d", ">", "<", "t", "d", ">" >>
\* lines 33 and 41
TD_OPEN == << "<", "t", "d", ">" >>
\* lines 33 and 41
TD_CLOSE == << "<", "/", "t", "d", ">" >>
\* lines 77, 79, 192, 194
HEAD_CLOSE == << "<", "/", "h", "e", "a", "d", ">" >>
\* lines 199, 201
HTML_OPEN == << "<", "h", "t", "m", "l", ">" >>
\* lines 202, 207
HEAD_OPEN == << "<", "h", "e", "a", "d", ">" >>

(***************************************************************************)
(* Character classes of Python's re and str over the model's characters.   *)
(***************************************************************************)
UpperSeq == << "A", "B", "C", "D", "E", "F", "G", "H", "I", "J", "K", "L", "M",
               "N", "O", "P", "Q", "R", "S", "T", "U", "V", "W", "X", "Y", "Z" >>
LowerSeq == << "a", "b", "c", "d", "e", "f", "g", "h", "i", "j", "k", "l", "m",
               "n", "o", "p", "q", "r", "s", "t", "u", "v", "w", "x", "y", "z" >>
UpperCase == { UpperSeq[i] : i \in 1..Len(UpperSeq) }
LowerCase == { LowerSeq[i] : i \in 1..Len(LowerSeq) }
Digits == { "0", "1", "2", "3", "4", "5", "6", "7", "8", "9" }

\* \s, and the characters str.strip() removes
WhiteSpace == { " ", "\t", "\n", "\r", "\f" }
\* [\r\n]
LineBreaks == { "\r", "\n" }
\* [a-zA-Z\\]
LetterOrBackslash == UpperCase \cup LowerCase \cup { "\\" }
\* [a-zA-Z0-9_]
AlnumOrUnderscore == UpperCase \cup LowerCase \cup Digits \cup { "_" }

\* re.IGNORECASE compares characters by their lower case
Lower(c) == IF c \in UpperCase
            THEN LowerSeq[CHOOSE i \in 1..Len(UpperSeq) : UpperSeq[i] = c]
            ELSE c

(***************************************************************************)
(* Operations on texts.                                                    *)
(***************************************************************************)
Min(S) == CHOOSE x \in S : \A y \in S : x <= y
Max(S) == CHOOSE x \in S : \A y \in S : x >= y

\* s[i..] starts with p
OccursAt(s, i, p) ==
    /\ i >= 1
    /\ i + Len(p) - 1 <= Len(s)
    /\ \A k \in 1..Len(p) : s[i + k - 1] = p[k]

\* the same, letter case ignored (p is in lower case)
OccursAtIgnoreCase(s, i, p) ==
    /\ i >= 1
    /\ i + Len(p) - 1 <= Len(s)
    /\ \A k \in 1..Len(p) : Lower(s[i + k - 1]) = p[k]

\* the first index >= from where p occurs in s, 0 when there is none
Find(s, p, from) ==
    LET at == { i \in from..Len(s) : OccursAt(s, i, p) }
    IN  IF at = {} THEN 0 ELSE Min(at)

Occurs(s, p) == Find(s, p, 1) # 0

\* the number of (possibly overlapping) places where p occurs in s
CountOccurrences(s, p) == Cardinality({ i \in 1..Len(s) : OccursAt(s, i, p) })

\* the last index of the longest run of characters of class C that starts at
\* i (i - 1 when the run is empty): a greedy C* from i
RunEnd(s, i, C) ==
    LET stops == { j \in i..Len(s) : s[j] \notin C }
    IN  IF stops = {} THEN Len(s) ELSE Min(stops) - 1

\* str.strip()
Strip(s) ==
    LET keep == { i \in 1..Len(s) : s[i] \notin WhiteSpace }
    IN  IF keep = {} THEN << >> ELSE SubSeq(s, Min(keep), Max(keep))

\* str.replace(old, new, 1)
ReplaceFirst(s, old, new) ==
    LET i == Find(s, old, 1)
    IN  IF i = 0 THEN s
        ELSE SubSeq(s, 1, i - 1) \o new \o SubSeq(s, i + Len(old), Len(s))

\* str.replace(old, new): every occurrence, left to right, not overlapping
RECURSIVE ReplaceAllFrom(_, _, _, _)
ReplaceAllFrom(s, old, new, pos) ==
    LET i == Find(s, old, pos)
    IN  IF i = 0 THEN SubSeq(s, pos, Len(s))
        ELSE SubSeq(s, pos, i - 1) \o new \o ReplaceAllFrom(s, old, new, i + Len(old))
ReplaceAll(s, old, new) == ReplaceAllFrom(s, old, new, 1)

\* str.split('\n')
RECURSIVE SplitLinesFrom(_, _)
SplitLinesFrom(s, pos) ==
    LET i == Find(s, << "\n" >>, pos)
    IN  IF i = 0 THEN << SubSeq(s, pos, Len(s)) >>
        ELSE << SubSeq(s, pos, i - 1) >> \o SplitLinesFrom(s, i + 1)
SplitLines(s) == SplitLinesFrom(s, 1)

\* '\n'.join(list)
RECURSIVE JoinLinesFrom(_, _)
JoinLinesFrom(list, k) ==
    IF k > Len(list) THEN << >>
    ELSE IF k = Len(list) THEN list[k]
    ELSE list[k] \o << "\n" >> \o JoinLinesFrom(list, k + 1)
JoinLines(list) == JoinLinesFrom(list, 1)

\* the concatenation of a sequence of texts
RECURSIVE ConcatFrom(_, _)
ConcatFrom(list, k) ==
    IF k > Len(list) THEN << >> ELSE list[k] \o ConcatFrom(list, k + 1)
Concat(list) == ConcatFrom(list, 1)

(***************************************************************************)
(* Pattern.findall / Pattern.sub.  ends[i] is the end index of the pattern *)
(* 's match that starts at i, 0 when it has none there.  The scan takes    *)
(* the leftmost match at or after pos and goes on behind it; no pattern of *)
(* the source matches the empty text.  A span is << first, last >>.        *)
(***************************************************************************)
RECURSIVE ScanMatches(_, _)
ScanMatches(ends, pos) ==
    LET starts == { i \in pos..Len(ends) : ends[i] # 0 }
    IN  IF starts = {} THEN << >>
        ELSE LET i == Min(starts)
             IN  << << i, ends[i] >> >> \o ScanMatches(ends, ends[i] + 1)

\* s with the k-th span replaced by reps[k]
RECURSIVE SpliceFrom(_, _, _, _, _)
SpliceFrom(s, spans, reps, k, pos) ==
    IF k > Len(spans) THEN SubSeq(s, pos, Len(s))
    ELSE SubSeq(s, pos, spans[k][1] - 1) \o reps[k]
             \o SpliceFrom(s, spans, reps, k + 1, spans[k][2] + 1)
Splice(s, spans, reps) == SpliceFrom(s, spans, reps, 1, 1)

\* s with every span replaced by rep
SpliceEach(s, spans, rep) == Splice(s, spans, [k \in 1..Len(spans) |-> rep])

\* the texts of the spans
Texts(s, spans) == [k \in 1..Len(spans) |-> SubSeq(s, spans[k][1], spans[k][2])]

\* the texts of the spans without their first and last n characters
Interiors(s, spans, n) ==
    [k \in 1..Len(spans) |-> SubSeq(s, spans[k][1] + n, spans[k][2] - n)]

(***************************************************************************)
(* The replacement template of re.sub: "\\" followed by "\\" gives one     *)
(* backslash, by "1" the text of group 1, by "n" a line break; followed by *)
(* a character that is no ASCII letter or digit, both are kept.  A letter  *)
(* that names no escape (a b f n r t v g do), a reference to a group the   *)
(* pattern has not (every pattern substituted with a template here has one *)
(* group) and a backslash that ends the template raise re.error.  The      *)
(* templates of the program hold no escape but "\\" and "\1".             *)
(***************************************************************************)
RECURSIVE TemplateEscapesFrom(_, _)
TemplateEscapesFrom(t, pos) ==
    LET at == { i \in pos..Len(t) : t[i] = "\\" }
    IN  IF at = {} THEN << >>
        ELSE LET i == Min(at)
             IN  IF i = Len(t) THEN << "" >>
                 ELSE << t[i + 1] >> \o TemplateEscapesFrom(t, i + 2)

TemplateRaises(t) ==
    LET esc == TemplateEscapesFrom(t, 1)
    IN  \E k \in 1..Len(esc) :
            \/ esc[k] = ""
            \/ esc[k] \in (UpperCase \cup LowerCase)
                               \ { "a", "b", "f", "n", "r", "t", "v", "g" }
            \/ esc[k] \in Digits \ { "0", "1" }

RECURSIVE ExpandTemplateFrom(_, _, _)
ExpandTemplateFrom(t, group1, pos) ==
    LET at == { i \in pos..Len(t) : t[i] = "\\" }
    IN  IF at = {} THEN SubSeq(t, pos, Len(t))
        ELSE LET i == Min(at)
                 c == IF i < Len(t) THEN t[i + 1] ELSE ""
             IN  SubSeq(t, pos, i - 1)
                 \o (CASE c = "\\" -> << "\\" >>
                       [] c = "1"  -> group1
                       [] c = "n"  -> << "\n" >>
                       [] c = ""   -> << "\\" >>
                       [] OTHER    -> << "\\", c >>)
                 \o ExpandTemplateFrom(t, group1, i + 2)
ExpandTemplate(t, group1) == ExpandTemplateFrom(t, group1, 1)

(***************************************************************************)
(* process_tables                                                          *)
(***************************************************************************)
\* One turn of the group (?:\|.*?\|[\r\n]+) at i, under re.DOTALL: a "|",
\* the shortest text (line breaks allowed) up to a "|" that is followed by a
\* line break, then every line break that follows.  Its end index, or 0.
TableRowEnd(s, i) ==
    IF i > Len(s) \/ s[i] # "|" THEN 0
    ELSE LET closes == { j \in (i + 1)..(Len(s) - 1) :
                            s[j] = "|" /\ s[j + 1] \in LineBreaks }
         IN  IF closes = {} THEN 0
             ELSE RunEnd(s, Min(closes) + 1, LineBreaks)

\* The greedy "+" of the group: after a turn that ended at e, one more turn
\* when there is one.
RECURSIVE TableRowsEnd(_, _)
TableRowsEnd(s, e) ==
    LET n == TableRowEnd(s, e + 1)
    IN  IF n = 0 THEN e ELSE TableRowsEnd(s, n)

\* table_pattern = (?P<table>(?:\|.*?\|[\r\n]+)+), at i
TableMatchEnd(s, i) ==
    LET e == TableRowEnd(s, i)
    IN  IF e = 0 THEN 0 ELSE TableRowsEnd(s, e)

\* the spans table_pattern.sub visits
table_pattern(s) == ScanMatches([i \in 1..Len(s) |-> TableMatchEnd(s, i)], 1)

StripEach(parts) == [k \in 1..Len(parts) |-> Strip(parts[k])]
NonEmpty(list) == SelectSeq(list, LAMBDA l : l # << >>)

\* (lines with the split taken from its second part on)
lines_from_second(table_content) ==
    NonEmpty(StripEach(Tail(SplitLines(table_content))))

\* lines = [line.strip() for line in table_content.split('\n') if line.strip()]
lines(table_content) == NonEmpty(StripEach(SplitLines(table_content)))

\* line.replace("|", "</td><td>").replace("<td>", "", 1).replace("</td>", "", 1)
table_row(line) ==
    ReplaceFirst(ReplaceFirst(ReplaceAll(line, << "|" >>, CELL_BOUNDARY),
                              TD_OPEN, << >>),
                 TD_CLOSE, << >>)

\* lines[0] raises IndexError when lines is empty
replace_table_raises(table_content) == lines(table_content) = << >>

\* lines 39-40: for line in lines[2:]: if '|' in line
body_lines(ls) ==
    SelectSeq(SubSeq(ls, 3, Len(ls)), LAMBDA l : \E k \in 1..Len(l) : l[k] = "|")

\* lines 29-47, for the list lines and the lines of the body
html_table(ls, body) ==
    JoinLines(<< TABLE_OPEN, THEAD_OPEN,
                 TR_OPEN \o table_row(ls[1]) \o TR_CLOSE,
                 THEAD_CLOSE, TBODY_OPEN >>
              \o [k \in 1..Len(body) |-> TR_OPEN \o table_row(body[k]) \o TR_CLOSE]
              \o << TBODY_CLOSE, TABLE_CLOSE >>)

table_of_lines(ls) == html_table(ls, body_lines(ls))

replace_table(table_content) == table_of_lines(lines(table_content))

\* the spans of re.sub(r'(</head>)', ..., flags=re.IGNORECASE)
head_close_pattern(s) ==
    ScanMatches([i \in 1..Len(s) |->
                    IF OccursAtIgnoreCase(s, i, HEAD_CLOSE)
                    THEN i + Len(HEAD_CLOSE) - 1 ELSE 0], 1)

\* re.sub(pattern, template, s): spans are the pattern's matches and groups
\* their group 1
SubTemplate(s, spans, groups, template) ==
    Splice(s, spans, [k \in 1..Len(spans) |-> ExpandTemplate(template, groups[k])])

\* the same for a pattern whose group 1 is its whole match
SubTemplateWhole(s, spans, template) == SubTemplate(s, spans, Texts(s, spans), template)

\* f'{table_css}\n\\1'
table_css_template == table_css \o << "\n", "\\", "1" >>

\* content = table_pattern.sub(replace_table, content)
ReplaceTables(content, tables) ==
    Splice(content, table_pattern(content),
           [k \in 1..Len(tables) |-> replace_table(tables[k])])

convert_tables(content) == ReplaceTables(content, Texts(content, table_pattern(content)))

TablesRaise(tables) == \E k \in 1..Len(tables) : replace_table_raises(tables[k])

process_tables_raises(content) ==
    \/ TablesRaise(Texts(content, table_pattern(content)))
    \/ TemplateRaises(table_css_template)

\* lines 77-83: the style before every </head>, when there is one
InjectBefore(content, heads, template) ==
    IF heads # << >> THEN SubTemplateWhole(content, heads, template) ELSE content

inject_table_css(content) ==
    InjectBefore(content, head_close_pattern(content), table_css_template)

process_tables(content) == inject_table_css(convert_tables(content))

(***************************************************************************)
(* fix_subscript_equations                                                 *)
(***************************************************************************)
NoMatch == [end |-> 0, g1 |-> << >>, g2 |-> << >>]

\* ([a-zA-Z\\]+)_ at i: the last index of group 1, 0 when there is no match.
\* Group 1 is the whole run of letters and backslashes: a shorter one is
\* followed by a letter or a backslash, not by "_".
SubscriptBaseEnd(s, i) ==
    IF i > Len(s) \/ s[i] \notin LetterOrBackslash THEN 0
    ELSE LET r == RunEnd(s, i, LetterOrBackslash)
         IN  IF r < Len(s) /\ s[r + 1] = "_" THEN r ELSE 0

\* ([a-zA-Z0-9_]+) at j: the last index of the group, 0 when it is empty
SubscriptTokenEnd(s, j) ==
    IF j > Len(s) \/ s[j] \notin AlnumOrUnderscore THEN 0
    ELSE RunEnd(s, j, AlnumOrUnderscore)

\* </?em> and </?td> at j (letter case kept): the index of ">", or 0
TagEnd(s, j, name) ==
    IF OccursAt(s, j, << "<" >> \o name \o << ">" >>) THEN j + Len(name) + 1
    ELSE IF OccursAt(s, j, << "<", "/" >> \o name \o << ">" >>) THEN j + Len(name) + 2
    ELSE 0

\* subscript_pattern = ([a-zA-Z\\]+)_\s*([a-zA-Z0-9_]+), at i
subscript_pattern(s, i) ==
    LET r == SubscriptBaseEnd(s, i)
        w == RunEnd(s, r + 2, WhiteSpace)
        e == SubscriptTokenEnd(s, w + 1)
    IN  IF r = 0 \/ e = 0 THEN NoMatch
        ELSE [end |-> e, g1 |-> SubSeq(s, i, r), g2 |-> SubSeq(s, w + 1, e)]

\* broken_subscript_pattern =
\*   ([a-zA-Z\\]+)_\s*</?em>\s*([a-zA-Z0-9_]+)\s*</?em>, at i
broken_subscript_pattern(s, i) ==
    LET r == SubscriptBaseEnd(s, i)
        t1 == TagEnd(s, RunEnd(s, r + 2, WhiteSpace) + 1, << "e", "m" >>)
        w == RunEnd(s, t1 + 1, WhiteSpace)
        e == SubscriptTokenEnd(s, w + 1)
        t2 == TagEnd(s, RunEnd(s, e + 1, WhiteSpace) + 1, << "e", "m" >>)
    IN  IF r = 0 \/ t1 = 0 \/ e = 0 \/ t2 = 0 THEN NoMatch
        ELSE [end |-> t2, g1 |-> SubSeq(s, i, r), g2 |-> SubSeq(s, w + 1, e)]

\* table_subscript_pattern = ([a-zA-Z\\]+)_</?td>\s*<td>\s*([a-zA-Z0-9_]+), at i
table_subscript_pattern(s, i) ==
    LET r == SubscriptBaseEnd(s, i)
        t1 == TagEnd(s, r + 2, << "t", "d" >>)
        o == RunEnd(s, t1 + 1, WhiteSpace) + 1
        w == RunEnd(s, o + Len(TD_OPEN), WhiteSpace)
        e == SubscriptTokenEnd(s, w + 1)
    IN  IF r = 0 \/ t1 = 0 \/ ~OccursAt(s, o, TD_OPEN) \/ e = 0 THEN NoMatch
        ELSE [end |-> e, g1 |-> SubSeq(s, i, r), g2 |-> SubSeq(s, w + 1, e)]

\* pattern.sub(r'\1_\2', content), for the matches found at each index
SubJoinSubscript(s, found) ==
    LET spans == ScanMatches([i \in 1..Len(s) |-> found[i].end], 1)
    IN  Splice(s, spans,
               [k \in 1..Len(spans) |->
                   found[spans[k][1]].g1 \o << "_" >> \o found[spans[k][1]].g2])



\* lines 90-91, 95-96 and 99-100: one substitution each
fix_subscript(c) ==
    SubJoinSubscript(c, [i \in 1..Len(c) |-> subscript_pattern(c, i)])
fix_broken_subscript(c) ==
    SubJoinSubscript(c, [i \in 1..Len(c) |-> broken_subscript_pattern(c, i)])
fix_table_subscript(c) ==
    SubJoinSubscript(c, [i \in 1..Len(c) |-> table_subscript_pattern(c, i)])

fix_subscript_equations(content) ==
    fix_table_subscript(fix_broken_subscript(fix_subscript(content)))

(***************************************************************************)
(* merge_separated_equations                                               *)
(***************************************************************************)
\* \s*<\/?(td|em)>\s* under re.IGNORECASE, at i: the end index, or 0
TagPatternEnd(s, i) ==
    LET o == RunEnd(s, i, WhiteSpace) + 1
        n == IF OccursAt(s, o + 1, << "/" >>) THEN o + 2 ELSE o + 1
    IN  IF /\ OccursAt(s, o, << "<" >>)
           /\ \/ OccursAtIgnoreCase(s, n, << "t", "d", ">" >>)
              \/ OccursAtIgnoreCase(s, n, << "e", "m", ">" >>)
        THEN RunEnd(s, n + 3, WhiteSpace)
        ELSE 0

\* re.sub(r'\s*<\/?(td|em)>\s*', ' ', content, flags=re.IGNORECASE | re.DOTALL)
strip_tags(content) ==
    SpliceEach(content,
               ScanMatches([i \in 1..Len(content) |-> TagPatternEnd(content, i)], 1),
               << " " >>)

\* block_pattern = \$\$(.*?)\$\$ under re.DOTALL, at i: the end index, or 0.
\* Group 1 is the shortest text up to the next "$$".
BlockEnd(s, i) ==
    IF ~OccursAt(s, i, << "$", "$" >>) THEN 0
    ELSE LET closes == { j \in (i + 2)..Len(s) : OccursAt(s, j, << "$", "$" >>) }
         IN  IF closes = {} THEN 0 ELSE Min(closes) + 1

block_pattern(s) == ScanMatches([i \in 1..Len(s) |-> BlockEnd(s, i)], 1)

\* block_pattern.findall: group 1 of each match
block_interiors(s, spans) == Interiors(s, spans, 2)

\* (?<!\$)\$(.*?)\$(?!\$) at i: a "$" with no "$" before it, the shortest
\* text up to a "$" with no "$" behind it.  "." passes a line break only
\* under re.DOTALL.  The end index, or 0.
InlineEnd(s, i, dotall) ==
    IF i > Len(s) \/ s[i] # "$" \/ (i > 1 /\ s[i - 1] = "$") THEN 0
    ELSE LET closes == { j \in (i + 1)..Len(s) :
                            /\ s[j] = "$"
                            /\ j = Len(s) \/ s[j + 1] # "$"
                            /\ dotall \/ \A k \in (i + 1)..(j - 1) : s[k] # "\n" }
         IN  IF closes = {} THEN 0 ELSE Min(closes)

\* inline_pattern of merge_separated_equations (line 125, re.DOTALL)
inline_pattern_dotall(s) == ScanMatches([i \in 1..Len(s) |-> InlineEnd(s, i, TRUE)], 1)

\* inline_pattern of process_html_content (line 161, no flag)
inline_pattern(s) == ScanMatches([i \in 1..Len(s) |-> InlineEnd(s, i, FALSE)], 1)

\* inline_pattern.findall: group 1 of each match
inline_interiors(s, spans) == Interiors(s, spans, 1)

\* re.sub(r'\n+', '\n', s) and re.sub(r' +', ' ', s): each run of c becomes one c
CollapseRuns(s, c) ==
    SpliceEach(s,
               ScanMatches([i \in 1..Len(s) |->
                               IF s[i] = c THEN RunEnd(s, i, { c }) ELSE 0], 1),
               << c >>)

\* lines 132-133: the runs of line breaks, then the runs of spaces, of match.strip()
cleaned_block(match) == CollapseRuns(CollapseRuns(Strip(match), "\n"), " ")

\* line 134: f'$$\n{cleaned_match}\n$$'
restored_block(match) ==
    << "$", "$", "\n" >> \o cleaned_block(match) \o << "\n", "$", "$" >>

\* line 138: cleaned_match = re.sub(r' +', ' ', match.strip())
cleaned_inline(match) == CollapseRuns(Strip(match), " ")

\* line 139: f'${cleaned_match}$'
restored_inline(match) == << "$" >> \o cleaned_inline(match) \o << "$" >>

\* for match in matches: content = content.replace(placeholder, texts, 1)
RECURSIVE RestoreFrom(_, _, _, _)
RestoreFrom(content, placeholder, texts, k) ==
    IF k > Len(texts) THEN content
    ELSE RestoreFrom(ReplaceFirst(content, placeholder, texts[k]), placeholder, texts, k + 1)
Restore(content, placeholder, texts) == RestoreFrom(content, placeholder, texts, 1)

\* lines 107-127: the buffer with the placeholders in it (content), the two
\* lists, and the buffers the two patterns were matched on
merge_extracted(content) ==
    LET Extracted(stripped, blocks, held, inlines) ==
            [ stripped |-> stripped,
              block_spans |-> blocks,
              block_matches |-> block_interiors(stripped, blocks),
              held |-> held,
              inline_spans |-> inlines,
              inline_matches |-> inline_interiors(held, inlines),
              content |-> SpliceEach(held, inlines, inline_placeholder) ]
        Inlines(stripped, blocks, held) ==
            Extracted(stripped, blocks, held, inline_pattern_dotall(held))
        Blocks(stripped, blocks) ==
            Inlines(stripped, blocks, SpliceEach(stripped, blocks, block_placeholder))
        Stripped(stripped) == Blocks(stripped, block_pattern(stripped))
    IN  Stripped(strip_tags(fix_subscript_equations(content)))

RestoredBlocks(matches) == [k \in 1..Len(matches) |-> restored_block(matches[k])]
RestoredInlines(matches) == [k \in 1..Len(matches) |-> restored_inline(matches[k])]

\* lines 130-139: the two restoration loops
restore_extracted(x) ==
    Restore(Restore(x.content, block_placeholder, RestoredBlocks(x.block_matches)),
            inline_placeholder, RestoredInlines(x.inline_matches))

merge_restored(content) == restore_extracted(merge_extracted(content))

merge_separated_equations(content) == fix_subscript_equations(merge_restored(content))

(***************************************************************************)
(* process_html_content                                                    *)
(***************************************************************************)
\* r'\\(\1\\)'
inline_template == << "\\", "\\", "(", "\\", "1", "\\", "\\", ")" >>

\* line 167: f'\\[\n{cleaned_match}\n\\]'
translated_block(match) ==
    << "\\", "[", "\n" >> \o Strip(match) \o << "\n", "\\", "]" >>

\* lines 149-162: tables, merge, the block placeholders and the inline
\* substitution of the last stage
translate_extracted(content) ==
    LET Extracted(merged, blocks, held, inlines) ==
            [ merged |-> merged,
              block_matches |-> block_interiors(merged, blocks),
              held |-> held,
              inline_spans |-> inlines,
              inline_matches |-> inline_interiors(held, inlines),
              content |-> SubTemplate(held, inlines, inline_interiors(held, inlines),
                                      inline_template) ]
        Inlines(merged, blocks, held) ==
            Extracted(merged, blocks, held, inline_pattern(held))
        Blocks(merged, blocks) ==
            Inlines(merged, blocks, SpliceEach(merged, blocks, block_placeholder))
        Merged(merged) == Blocks(merged, block_pattern(merged))
    IN  Merged(merge_separated_equations(process_tables(content)))

TranslatedBlocks(matches) == [k \in 1..Len(matches) |-> translated_block(matches[k])]

\* lines 165-167
restore_translated(x) ==
    Restore(x.content, block_placeholder, TranslatedBlocks(x.block_matches))

translate_delimiters(content) == restore_translated(translate_extracted(content))

\* the spans of re.sub(r'(<html>)', ..., flags=re.IGNORECASE)
html_open_pattern(s) ==
    ScanMatches([i \in 1..Len(s) |->
                    IF OccursAtIgnoreCase(s, i, HTML_OPEN)
                    THEN i + Len(HTML_OPEN) - 1 ELSE 0], 1)

\* f'{mathjax_config}\n\\1'
mathjax_head_template == mathjax_config \o << "\n", "\\", "1" >>

\* f'\\1\n<head>\n{mathjax_config}\n</head>'
mathjax_html_template ==
    << "\\", "1", "\n" >> \o HEAD_OPEN \o << "\n" >> \o mathjax_config
        \o << "\n" >> \o HEAD_CLOSE

\* lines 192-207
InjectConfig(content, heads, htmls) ==
    IF heads # << >>
    THEN SubTemplateWhole(content, heads, mathjax_head_template)
    ELSE IF htmls # << >>
    THEN SubTemplateWhole(content, htmls, mathjax_html_template)
    ELSE HEAD_OPEN \o << "\n" >> \o mathjax_config \o << "\n" >> \o HEAD_CLOSE
             \o << "\n" >> \o content

inject_mathjax(content) ==
    InjectConfig(content, head_close_pattern(content), html_open_pattern(content))

process_html_content_raises(content) ==
    \/ process_tables_raises(content)
    \/ TemplateRaises(inline_template)
    \/ TemplateRaises(mathjax_head_template)
    \/ TemplateRaises(mathjax_html_template)

process_html_content(content) == inject_mathjax(translate_delimiters(content))

(***************************************************************************)
(* The state machine.  The functions of the module are pure and keep no    *)
(* state between calls: a run is an argument and one call made with it, a  *)
(* second call with the same argument giving the same state.  Each action  *)
(* is one call, the whole of it.                                           *)
(***************************************************************************)
MaxTokens == 4
MaxTableTokens == 4
MaxEquationTokens == 5
MaxSubscriptTokens == 4
MaxHeadTokens == 3

\* the texts made of at most n tokens of T
Inputs(T, n) ==
    { Concat(w) : w \in UNION { [1..k -> T] : k \in 0..n } }

MixedTokens ==
    { << "|" >>, << "\n" >>, << "\r" >>, << "$" >>, << "a" >>, << "_" >>, << " " >> }
TableTokens ==
    { << "|", "a", "|", "\n" >>, << "|", "b", "|", "c", "|", "\n" >>,
      << "|" >>, << "a" >>, << "\n" >> }
EquationTokens ==
    { << "$" >>, << "$", "$" >>, << "a" >>, << "\n" >> }
SubscriptTokens ==
    { << "a", "_" >>, << "a" >>, << " " >>, << "<", "e", "m", ">" >>,
      << "<", "/", "e", "m", ">" >>, << "<", "/", "t", "d", ">" >>,
      << "<", "t", "d", ">" >> }
HeadTokens ==
    { << "<", "/", "h", "e", "a", "d", ">" >>, << "<", "/", "H", "E", "A", "D", ">" >>,
      << "<", "h", "t", "m", "l", ">" >>, << "<", "h", "e", "a", "d", ">" >>,
      << "a" >>, << "$" >> }

Returned(name, text) == op' = name /\ out' = text /\ fault' = "none"
Raised(name, error) == op' = name /\ out' = << >> /\ fault' = error

Call_process_tables ==
    /\ op = "none"
    /\ IF process_tables_raises(input)
       THEN Raised("process_tables", "IndexError")
       ELSE Returned("process_tables", process_tables(input))
    /\ UNCHANGED input

Call_fix_subscript_equations ==
    /\ op = "none"
    /\ Returned("fix_subscript_equations", fix_subscript_equations(input))
    /\ UNCHANGED input

Call_merge_separated_equations ==
    /\ op = "none"
    /\ Returned("merge_separated_equations", merge_separated_equations(input))
    /\ UNCHANGED input

Call_process_html_content ==
    /\ op = "none"
    /\ IF process_html_content_raises(input)
       THEN Raised("process_html_content", "IndexError")
       ELSE Returned("process_html_content", process_html_content(input))
    /\ UNCHANGED input

NoCallYet == op = "none" /\ out = << >> /\ fault = "none"

Init == input \in Inputs(MixedTokens, MaxTokens) /\ NoCallYet
InitTables == input \in Inputs(TableTokens, MaxTableTokens) /\ NoCallYet
InitEquations == input \in Inputs(EquationTokens, MaxEquationTokens) /\ NoCallYet
InitSubscripts == input \in Inputs(SubscriptTokens, MaxSubscriptTokens) /\ NoCallYet
InitHead == input \in Inputs(HeadTokens, MaxHeadTokens) /\ NoCallYet

Next ==
    \/ Call_process_tables
    \/ Call_fix_subscript_equations
    \/ Call_merge_separated_equations
    \/ Call_process_html_content

Spec == Init /\ [][Next]_vars
SpecTables == InitTables /\ [][Next]_vars
SpecEquations == InitEquations /\ [][Next]_vars
SpecSubscripts == InitSubscripts /\ [][Next]_vars
SpecHead == InitHead /\ [][Next]_vars

(***************************************************************************)
(* The claims.                                                             *)
(***************************************************************************)
Has(s, c) == \E i \in 1..Len(s) : s[i] = c
HasIgnoreCase(s, p) == \E i \in 1..Len(s) : OccursAtIgnoreCase(s, i, p)
AllOccur(s, texts) == \A k \in 1..Len(texts) : Occurs(s, texts[k])

\* C1: no-op safety of process_html_content.  For an input with no "|" and
\* no "$" the output is the input with only the head blocks injected: the
\* style before each </head> and the configuration block.
C1_NoOpSafety ==
    (op = "process_html_content" /\ ~Has(input, "|") /\ ~Has(input, "$"))
        => out = inject_mathjax(inject_table_css(input))

HasSentinel(s) == Occurs(s, block_placeholder) \/ Occurs(s, inline_placeholder)

C2_Restored(x, restored) ==
    /\ ~HasSentinel(restored)
    /\ AllOccur(restored, RestoredBlocks(x.block_matches))
    /\ AllOccur(restored, RestoredInlines(x.inline_matches))

\* C2: placeholder integrity of merge_separated_equations.  For an input
\* without the sentinel texts, every extracted block interior and every
\* extracted inline interior is in the buffer after the restoration loops,
\* cleaned and between its delimiters, and no sentinel is left in that
\* buffer nor in the result.
C2_PlaceholderIntegrity ==
    (op = "merge_separated_equations" /\ ~HasSentinel(input))
        => /\ C2_Restored(merge_extracted(input), merge_restored(input))
           /\ ~HasSentinel(out)

\* a non-blank line that starts and ends with "|"
StartsAndEndsWithPipe(line) ==
    line # << >> /\ line[1] = "|" /\ line[Len(line)] = "|"

\* s without the line breaks that end it
WithoutFinalBreaks(s) ==
    LET keep == { i \in 1..Len(s) : s[i] \notin LineBreaks }
    IN  IF keep = {} THEN << >> ELSE SubSeq(s, 1, Max(keep))

C3_LinesOfPipes(parts) == \A k \in 1..Len(parts) : StartsAndEndsWithPipe(parts[k])

C3_RunOfPipeLines(s, span) ==
    /\ span[1] = 1 \/ s[span[1] - 1] \in LineBreaks
    /\ C3_LinesOfPipes(SplitLines(WithoutFinalBreaks(SubSeq(s, span[1], span[2]))))

C3_AllRuns(s, spans) == \A k \in 1..Len(spans) : C3_RunOfPipeLines(s, spans[k])

\* C3: table detection of process_tables.  Every text the table pattern
\* matches starts at the start of a line and is made of lines that each
\* start and end with "|": no line that is not pipe-delimited and no blank
\* line lies inside a match.
C3_TableDetection ==
    op = "process_tables" => C3_AllRuns(input, table_pattern(input))

\* a line | ... | : two outer pipes and the cells between them
PipeDelimited(line) ==
    Len(line) >= 2 /\ line[1] = "|" /\ line[Len(line)] = "|"

\* the input is a run of k >= 2 pipe-delimited lines, each ended by "\n"
C4_IsRun(parts) ==
    /\ Len(parts) >= 3
    /\ parts[Len(parts)] = << >>
    /\ \A k \in 1..(Len(parts) - 1) : PipeDelimited(parts[k])

\* the row the claim describes: the texts between consecutive pipes of the
\* line, a cell boundary between two of them and none for the outer pipes
C4_Row(line) ==
    TR_OPEN \o ReplaceAll(SubSeq(line, 2, Len(line) - 1), << "|" >>, CELL_BOUNDARY)
        \o TR_CLOSE

\* the table the claim describes for the lines ls: one header row of line 0,
\* nothing of line 1, one body row for each of the lines 2..k-1, in order
C4_Table(ls) ==
    JoinLines(<< TABLE_OPEN, THEAD_OPEN, C4_Row(ls[1]), THEAD_CLOSE, TBODY_OPEN >>
              \o [k \in 1..(Len(ls) - 2) |-> C4_Row(ls[k + 2])]
              \o << TBODY_CLOSE, TABLE_CLOSE >>)

\* C4: the shape of a converted table.  For a run of k >= 2 pipe-delimited
\* lines replace_table gives one header row of line 0 and k - 2 body rows of
\* the lines 2..k-1, each row the cell texts of its line with a cell
\* boundary between two cells and no empty cell for the outer pipes.
C4_TableShape ==
    (op = "process_tables" /\ C4_IsRun(SplitLines(input)))
        => out = C4_Table(lines(input))

C5_AsRestored(matches) ==
    [k \in 1..Len(matches) |-> fix_subscript_equations(cleaned_inline(matches[k]))]

\* C5: inline delimiter translation.  The last stage of process_html_content
\* matches exactly the inline spans the merge stage restored, in order: its
\* interiors are the cleaned interiors of the merge stage (as the closing
\* subscript repair of the merge stage left them), so each of them, on one
\* line or several, is rewritten and nothing else is.
C5_InlineTranslation ==
    op = "process_html_content"
        => translate_extracted(input).inline_matches
               = C5_AsRestored(merge_extracted(process_tables(input)).inline_matches)

\* the last index of the longest run of whitespace and <em>, </em> tags that
\* starts at j (j - 1 when it is empty)
RECURSIVE GapEnd(_, _)
GapEnd(s, j) ==
    IF j > Len(s) THEN j - 1
    ELSE IF s[j] \in WhiteSpace THEN GapEnd(s, j + 1)
    ELSE IF TagEnd(s, j, << "e", "m" >>) # 0
         THEN GapEnd(s, TagEnd(s, j, << "e", "m" >>) + 1)
    ELSE j - 1

\* at i: the end of a letters-or-backslash token and "_", then whitespace or
\* <em>, </em> tags, then an alphanumeric-or-underscore token
SplitSubscriptAt(s, i) ==
    /\ s[i] \in LetterOrBackslash
    /\ i + 2 <= Len(s)
    /\ s[i + 1] = "_"
    /\ GapEnd(s, i + 2) >= i + 2
    /\ GapEnd(s, i + 2) < Len(s)
    /\ s[GapEnd(s, i + 2) + 1] \in AlnumOrUnderscore

HasSplitSubscript(s) == \E i \in 1..Len(s) : SplitSubscriptAt(s, i)

\* C6: the postcondition of fix_subscript_equations.  The result has no
\* token, "_", whitespace or <em>/</em> tag, token left in it, and a buffer
\* that has none is returned as it is.
C6_SubscriptRepair ==
    op = "fix_subscript_equations"
        => /\ ~HasSplitSubscript(out)
           /\ ~HasSplitSubscript(input) => out = input

\* the configuration block as it is injected: as written, or as the template
\* of re.sub leaves it
ConfigBlocks(s) ==
    CountOccurrences(s, mathjax_config)
        + CountOccurrences(s, ExpandTemplate(mathjax_config, << >>))

\* the text up to the end of the first </head>
FirstHead(s) ==
    SubSeq(s, 1, Min({ i \in 1..Len(s) : OccursAtIgnoreCase(s, i, HEAD_CLOSE) }
                         \cup { Len(s) }) + Len(HEAD_CLOSE) - 1)

\* C7: head injection.  With a </head> in the input (any letter case, one
\* or several) the output holds the style block once and the configuration
\* block once, before the first </head>.  With no head tag and no <html> in
\* the input the output begins with a <head> ... </head> that holds both.
C7_HeadInjection ==
    op = "process_html_content"
        => /\ HasIgnoreCase(input, HEAD_CLOSE)
                  => /\ CountOccurrences(out, table_css) = 1
                     /\ ConfigBlocks(out) = 1
                     /\ CountOccurrences(FirstHead(out), table_css) = 1
                     /\ ConfigBlocks(FirstHead(out)) = 1
           /\ (/\ ~HasIgnoreCase(input, HEAD_CLOSE)
               /\ ~HasIgnoreCase(input, HEAD_OPEN)
               /\ ~HasIgnoreCase(input, HTML_OPEN))
                  => /\ OccursAt(out, 1, HEAD_OPEN)
                     /\ Occurs(FirstHead(out), table_css)
                     /\ ConfigBlocks(FirstHead(out)) = 1

\* C9: the injected configuration block is one fixed text: the output holds
\* mathjax_config character for character, with '\\\\(' and its like (two
\* backslashes each) in it, in each of the three insertion cases.
C9_FixedConfig ==
    op = "process_html_content" => Occurs(out, mathjax_config)

\* the "$" at i has no "$" next to it
Alone(s, i) ==
    /\ i = 1 \/ s[i - 1] # "$"
    /\ i = Len(s) \/ s[i + 1] # "$"

NoneAbuts(s, spans) ==
    \A k \in 1..Len(spans) : Alone(s, spans[k][1]) /\ Alone(s, spans[k][2])

C10_SpansAlone(x) == NoneAbuts(x.held, x.inline_spans)

Dollars(s) == Cardinality({ i \in 1..Len(s) : s[i] = "$" })

\* one "$" or one "$$" and no other "$": a delimiter with none to close it
Unbalanced(s) == Dollars(s) = 1 \/ (Dollars(s) = 2 /\ Occurs(s, << "$", "$" >>))

\* C10: no inline match of the merge stage or of the last stage has its
\* opening or its closing "$" next to another "$", and a "$" or "$$" with
\* nothing to close it is in the output as it was.
C10_InlineNeverAbuts ==
    /\ op = "merge_separated_equations" => C10_SpansAlone(merge_extracted(input))
    /\ op = "process_html_content"
           => /\ C10_SpansAlone(translate_extracted(input))
              /\ Unbalanced(input) => Dollars(out) = Dollars(input)

C8_EveryTableHasLines(tables) == \A k \in 1..Len(tables) : lines(tables[k]) # << >>

\* C8: totality.  No call raises and each returns a text; every match of the
\* table pattern has a non-blank line, so lines[0] is defined; with no table
\* the table conversion changes nothing, and with no "$" the extraction and
\* the restoration of merge_separated_equations change nothing.
C8_Totality ==
    /\ fault = "none"
    /\ \A k \in 1..Len(out) : out[k] \in STRING
    /\ C8_EveryTableHasLines(Texts(input, table_pattern(input)))
    /\ (op = "process_tables" /\ table_pattern(input) = << >>)
           => out = inject_table_css(input)
    /\ (op = "merge_separated_equations" /\ ~Has(input, "$"))
           => out = fix_subscript_equations(strip_tags(fix_subscript_equations(input)))

C8_OneLine(tables) == \E k \in 1..Len(tables) : Len(lines(tables[k])) = 1

\* C8 witness: process_html_content has returned for an input with a table
\* match of one line, whose body is empty
C8_OneLineTableConverted ==
    /\ op = "process_html_content"
    /\ fault = "none"
    /\ C8_OneLine(Texts(input, table_pattern(input)))
    /\ Occurs(out, TBODY_OPEN \o << "\n" >> \o TBODY_CLOSE)
====
